---------------------------- MODULE Spec2Model ----------------------------
(***************************************************************************)
(* Model of madmom/features/viterbi.pyx: the dynamic Bayesian network for  *)
(* beat tracking (BeatTrackingDynamicBayesianNetwork.viterbi / .beats) and *)
(* the windowed decoder crf_viterbi.                                       *)
(*                                                                         *)
(* Floating point values are modelled as exact rationals <<n, d>> in       *)
(* lowest terms (d > 0); <<0, 0>> is NaN (the result of 0/0) and <<1, 0>>  *)
(* is +Inf.  A log-probability x is modelled by the rational exp(x): a sum *)
(* of logs is the product of the arguments, log(0) = -Inf is <<0, 1>>.     *)
(***************************************************************************)
EXTENDS Integers, Sequences, FiniteSets, TLC

(***************************************************************************)
(* Bounds of the model                                                     *)
(***************************************************************************)
MaxFrames == 3

MaxBeatStates == 4

MaxLambda == 3

MaxThreads == 2

(***************************************************************************)
(* Rational arithmetic (C double / numpy float arithmetic, exact)          *)
(***************************************************************************)
RECURSIVE GCD(_, _)
GCD(a, b) == IF b = 0 THEN a ELSE GCD(b, a % b)

Abs(x) == IF x < 0 THEN 0 - x ELSE x

NaN == <<0, 0>>

PosInf == <<1, 0>>

Zero == <<0, 1>>

One == <<1, 1>>

IsNaN(a) == a = NaN

IsFinite(a) == a[2] > 0

\* the rational n/d in lowest terms with a positive denominator
Rat(n, d) ==
    IF d = 0 THEN (IF n = 0 THEN NaN ELSE PosInf)
    ELSE LET g == GCD(Abs(n), Abs(d))
             s == IF d < 0 THEN 0 - 1 ELSE 1
         IN  <<(s * n) \div g, (s * d) \div g>>

RatMul(a, b) ==
    IF IsNaN(a) \/ IsNaN(b) THEN NaN
    ELSE IF ~IsFinite(a) \/ ~IsFinite(b)
         THEN (IF a[1] = 0 \/ b[1] = 0 THEN NaN ELSE PosInf)
    ELSE LET g1 == GCD(Abs(a[1]), b[2])
             g2 == GCD(Abs(b[1]), a[2])
         IN  <<(a[1] \div g1) * (b[1] \div g2), (a[2] \div g2) * (b[2] \div g1)>>

RatDiv(a, b) ==
    IF IsNaN(a) \/ IsNaN(b) THEN NaN
    ELSE IF ~IsFinite(a) THEN (IF IsFinite(b) THEN PosInf ELSE NaN)
    ELSE IF ~IsFinite(b) THEN Zero
    ELSE IF b[1] = 0 THEN (IF a[1] = 0 THEN NaN ELSE PosInf)
    ELSE RatMul(a, <<b[2], b[1]>>)

RatAdd(a, b) ==
    IF IsNaN(a) \/ IsNaN(b) THEN NaN
    ELSE IF ~IsFinite(a) \/ ~IsFinite(b) THEN PosInf
    ELSE LET g == GCD(a[2], b[2])
         IN  Rat(a[1] * (b[2] \div g) + b[1] * (a[2] \div g), a[2] * (b[2] \div g))

RatSub(a, b) ==
    IF IsNaN(b) \/ ~IsFinite(b) THEN NaN ELSE RatAdd(a, <<0 - b[1], b[2]>>)

\* a > b as C compares doubles: every comparison with NaN is false
RatGT(a, b) ==
    IF IsNaN(a) \/ IsNaN(b) THEN FALSE
    ELSE IF ~IsFinite(a) THEN IsFinite(b)
    ELSE IF ~IsFinite(b) THEN FALSE
    ELSE a[1] * b[2] > b[1] * a[2]

\* sum and maximum of a vector v over 0..n-1
RECURSIVE VecSum(_, _)
VecSum(v, n) == IF n = 0 THEN Zero ELSE RatAdd(VecSum(v, n - 1), v[n - 1])

RECURSIVE VecMax(_, _)
VecMax(v, n) ==
    IF n = 1 THEN v[0]
    ELSE LET m == VecMax(v, n - 1) IN IF RatGT(v[n - 1], m) THEN v[n - 1] ELSE m

\* the last index of the maximum instead of the first
RECURSIVE VecArgMaxLast(_, _)
VecArgMaxLast(v, n) ==
    IF n = 1 THEN 0
    ELSE LET i == VecArgMaxLast(v, n - 1) IN IF RatGT(v[i], v[n - 1]) THEN i ELSE n - 1

\* numpy argmax: the first index of the maximum
RECURSIVE VecArgMax(_, _)
VecArgMax(v, n) ==
    IF n = 1 THEN 0
    ELSE LET i == VecArgMax(v, n - 1) IN IF RatGT(v[n - 1], v[i]) THEN n - 1 ELSE i


(***************************************************************************)
(* Inputs the model draws from                                             *)
(***************************************************************************)
MaxTempo == 3

BeatStateCounts == 2..MaxBeatStates

\* ordered sets of positive tempo states with one or two entries
TempoStateSets ==
    {<<t>> : t \in 1..MaxTempo} \cup
    {p \in (1..MaxTempo) \X (1..MaxTempo) : p[1] < p[2]}

Lambdas == 2..MaxLambda

\* tempo change probabilities in [0, 1)
ChangeProbabilities == {<<0, 1>>, <<2, 3>>}

\* activation values in [0, 1]
ObsLevels == {<<0, 1>>, <<1, 2>>, <<1, 1>>}

ObservationSeqs == UNION {[1..n -> ObsLevels] : n \in 0..MaxFrames}

(***************************************************************************)
(* State                                                                   *)
(***************************************************************************)
VARIABLES
    observations,              \* self.observations (1-based sequence of rationals)
    num_beat_states,           \* self.num_beat_states
    tempo_states,              \* self.tempo_states (1-based sequence)
    tempo_change_probability,  \* self.tempo_change_probability
    observation_lambda,        \* self.observation_lambda
    norm_observations,         \* self.norm_observations
    correct,                   \* self.correct
    num_threads,               \* self.num_threads
    pc,                        \* position inside viterbi() / beats
    frame,                     \* loop variable frame
    thread_pos,                \* per prange worker: next state of its static chunk
    body_pos,                  \* per prange worker: position inside the loop body
    current_viterbi,           \* current_viterbi (np.empty: starts unwritten)
    prev_viterbi,              \* prev_viterbi (np.ones)
    back_tracking_pointers,    \* back_tracking_pointers (np.empty: starts unwritten)
    path,                      \* path (np.empty), returned and saved as self._path
    path_probability,          \* exp of the local path_probability
    state,                     \* local variable state of the back tracking
    division,                  \* what "/" of two Python ints did in beats
    beats,                     \* value of the property beats
    \* crf_viterbi
    pi,                        \* initial distribution
    transition,                \* transition distribution
    norm_factor,               \* normalisation factors
    activations,               \* beat activations
    tau,                       \* dominant interval
    v_c,                       \* current viterbi variables (np.empty)
    v_p,                       \* previous viterbi variables (np.empty)
    bps,                       \* back-tracking pointers (np.empty)
    sum_k,                     \* cdef double sum_k (declared without a value)
    log_sum,                   \* exp of cdef double log_sum
    path_prob,                 \* cdef double path_prob
    next_state,                \* cdef int next_state (declared without a value)
    loop_k,                    \* loop variable k
    loop_i                     \* loop variable i of the back tracking

vars == <<observations, num_beat_states, tempo_states, tempo_change_probability,
          observation_lambda, norm_observations, correct, num_threads, pc, frame,
          thread_pos, body_pos, current_viterbi, prev_viterbi,
          back_tracking_pointers, path, path_probability, state, division, beats,
          pi, transition, norm_factor, activations, tau, v_c, v_p, bps, sum_k,
          log_sum, path_prob, next_state, loop_k, loop_i>>

crf_inputs == <<pi, transition, norm_factor, activations, tau>>

crf_vars == <<pi, transition, norm_factor, activations, tau, v_c, v_p, bps, sum_k,
              log_sum, path_prob, next_state, loop_k, loop_i>>

config == <<observations, num_beat_states, tempo_states, tempo_change_probability,
            observation_lambda, norm_observations, correct, num_threads>>

\* content of a slot of an np.empty array that was never written
Unwritten == 0 - 1

\* a double of np.empty(..., dtype=np.float) that was never written
Uninitialised == <<0 - 1, 0>>

num_observations == Len(observations)

num_tempo_states == Len(tempo_states)

(***************************************************************************)
(* Number of states: unsigned int num_states = num_beat_states * len(...)  *)
(* The product is truncated to 32 bits; it is computed here in 16 bit      *)
(* limbs, num_states = NumStatesHi * 2^16 + NumStatesLo.                   *)
(***************************************************************************)
Limb == 65536

NumStatesLo == ((num_beat_states % Limb) * num_tempo_states) % Limb

NumStatesHi ==
    ((num_beat_states \div Limb) * num_tempo_states +
     ((num_beat_states % Limb) * num_tempo_states) \div Limb) % Limb

\* np.iinfo(np.uint16).max
UInt16Max == 65535

\* num_states > np.iinfo(np.uint16).max
TooManyStates == NumStatesHi > 0 \/ NumStatesLo > UInt16Max

\* the value of num_states once the check has passed
num_states == NumStatesLo

States == 0..(num_states - 1)

Frames == 0..(num_observations - 1)

(***************************************************************************)
(* Observation model and transition model of one state (lines 249-301)     *)
(***************************************************************************)
\* observations_: the view the loops read, normalised by the maximum if asked
ObsMax ==
    LET v == [i \in 0..(num_observations - 1) |-> observations[i + 1]]
    IN  VecMax(v, num_observations)

observations_(f) ==
    IF norm_observations THEN RatDiv(observations[f + 1], ObsMax)
    ELSE observations[f + 1]

same_tempo_prob == RatSub(One, tempo_change_probability)

change_tempo_prob == RatMul(<<1, 2>>, tempo_change_probability)

beat_no_beat == num_beat_states \div observation_lambda

BeatStateOf(s) == s % num_beat_states

TempoStateOf(s) == s \div num_beat_states

TempoOf(s) == tempo_states[TempoStateOf(s) + 1]

\* (x mod 2^32) % m for an unsigned int expression x that may have gone below 0
U32Mod(x, m) ==
    IF x >= 0 THEN x % m
    ELSE ((((Limb % m) * (Limb % m)) % m) + (x % m)) % m

Obs(f, s) ==
    IF BeatStateOf(s) < beat_no_beat THEN observations_(f)
    ELSE RatDiv(RatSub(One, observations_(f)), <<observation_lambda - 1, 1>>)

PrevStateSame(s) ==
    U32Mod(BeatStateOf(s) + num_beat_states - TempoOf(s), num_beat_states) +
    TempoStateOf(s) * num_beat_states

PrevStateSlower(s) ==
    U32Mod(BeatStateOf(s) + num_beat_states - (TempoOf(s) - 1), num_beat_states) +
    (TempoStateOf(s) - 1) * num_beat_states

PrevStateFaster(s) ==
    U32Mod(BeatStateOf(s) + num_beat_states - (TempoOf(s) + 1), num_beat_states) +
    (TempoStateOf(s) + 1) * num_beat_states

\* the candidates of state s in the order the code tries them: <<prev_state, weight>>
Candidates(s) ==
    <<<<PrevStateSame(s), same_tempo_prob>>>> \o
    (IF TempoStateOf(s) > 0
     THEN <<<<PrevStateSlower(s), change_tempo_prob>>>> ELSE <<>>) \o
    (IF TempoStateOf(s) < num_tempo_states - 1
     THEN <<<<PrevStateFaster(s), change_tempo_prob>>>> ELSE <<>>)

\* transition_prob = prev_viterbi_[prev_state] * weight * obs
TransitionProb(prev, cand, obs) == RatMul(RatMul(prev[cand[1]], cand[2]), obs)

\* a comparison that lets a candidate with an equal score replace the best
ReplacesOrEqual(transition_prob, best) ==
    RatGT(transition_prob, best) \/ (~IsNaN(best) /\ transition_prob = best)

\* "if transition_prob > current_viterbi_[state]": does the candidate replace best
Replaces(transition_prob, best) == RatGT(transition_prob, best)

\* the candidates tried in order on <<current value, pointer>>, starting from acc
RECURSIVE TryCandidates(_, _, _, _, _)
TryCandidates(prev, cands, obs, i, acc) ==
    IF i > Len(cands) THEN acc
    ELSE LET tp == TransitionProb(prev, cands[i], obs)
         IN  TryCandidates(prev, cands, obs, i + 1,
                           IF Replaces(tp, acc[1]) THEN <<tp, cands[i][1]>> ELSE acc)

\* body of the prange loop for one state: <<current_viterbi_[s], pointer[frame, s]>>
StateUpdate(prev, f, s, old_pointer) ==
    TryCandidates(prev, Candidates(s), Obs(f, s), 1, <<Zero, old_pointer>>)

(***************************************************************************)
(* prange(num_states, schedule='static', num_threads=num_threads)          *)
(***************************************************************************)
Threads == 0..(num_threads - 1)

\* static schedule: the first (n % T) workers get one state more
ChunkStart(t) ==
    LET q == num_states \div num_threads
        r == num_states % num_threads
    IN  t * q + (IF t < r THEN t ELSE r)

\* a schedule whose chunks share their boundary state
ChunkEndShared(t) ==
    IF ChunkStart(t + 1) < num_states THEN ChunkStart(t + 1) + 1 ELSE ChunkStart(t + 1)

ChunkEnd(t) == ChunkStart(t + 1)


(***************************************************************************)
(* __init__ (lines 139-175): the state after construction                  *)
(***************************************************************************)
\* crf_viterbi is not running
CrfIdle ==
    /\ pi = <<>>
    /\ transition = <<>>
    /\ norm_factor = <<>>
    /\ activations = <<>>
    /\ tau = 1
    /\ v_c = <<>>
    /\ v_p = <<>>
    /\ bps = <<>>
    /\ sum_k = Zero
    /\ log_sum = One
    /\ path_prob = Zero
    /\ next_state = 0
    /\ loop_k = 0
    /\ loop_i = 0

Constructed(obs, nbs, ts, tcp, lambda, norm, corr, nt) ==
    /\ CrfIdle
    /\ observations = obs
    /\ num_beat_states = nbs
    /\ tempo_states = ts
    /\ tempo_change_probability = tcp
    /\ observation_lambda = lambda
    /\ norm_observations = norm
    /\ correct = corr
    /\ num_threads = nt
    /\ pc = "constructed"
    /\ frame = 0
    /\ thread_pos = <<>>
    /\ body_pos = [t \in 0..(nt - 1) |-> "reset"]
    /\ current_viterbi = <<>>
    /\ prev_viterbi = <<>>
    /\ back_tracking_pointers = <<>>
    /\ path = <<>>
    /\ path_probability = One
    /\ state = 0
    /\ division = "none"
    /\ beats = <<>>

Init ==
    \E obs \in ObservationSeqs, nbs \in BeatStateCounts, ts \in TempoStateSets,
       tcp \in ChangeProbabilities, lambda \in Lambdas, norm \in BOOLEAN,
       corr \in BOOLEAN, nt \in 1..MaxThreads :
        Constructed(obs, nbs, ts, tcp, lambda, norm, corr, nt)

(***************************************************************************)
(* viterbi(), lines 192-215: normalisation of the view, state count check  *)
(***************************************************************************)
CheckStates ==
    /\ pc = "constructed"
    /\ pc' = IF norm_observations /\ num_observations = 0
             THEN "ValueError"          \* np.max of an empty array
             ELSE IF TooManyStates THEN "AssertionError"
             ELSE "checked"
    /\ UNCHANGED <<crf_vars, config, body_pos, frame, thread_pos, current_viterbi, prev_viterbi,
                   back_tracking_pointers, path, path_probability, state,
                   division, beats>>

(***************************************************************************)
(* viterbi(), lines 216-240: the arrays of the decode call                 *)
(***************************************************************************)
Allocate ==
    /\ pc = "checked"
    /\ current_viterbi' = [s \in States |-> Uninitialised]
    /\ prev_viterbi' = [s \in States |-> One]
    /\ back_tracking_pointers' = [f \in Frames |-> [s \in States |-> Unwritten]]
    /\ path' = [f \in Frames |-> Unwritten]
    /\ path_probability' = One
    /\ frame' = 0
    /\ thread_pos' = [t \in Threads |-> ChunkStart(t)]
    /\ pc' = IF num_observations = 0 THEN "final" ELSE "prange"
    /\ UNCHANGED <<crf_vars, config, body_pos, state, division, beats>>

(***************************************************************************)
(* lines 244-301: one worker of the prange computes its next state         *)
(***************************************************************************)
UpdateState(t) ==
    /\ pc = "prange"
    /\ thread_pos[t] < ChunkEnd(t)
    /\ LET s == thread_pos[t]
           r == StateUpdate(prev_viterbi, frame, s, back_tracking_pointers[frame][s])
       IN  /\ current_viterbi' = [current_viterbi EXCEPT ![s] = r[1]]
           /\ back_tracking_pointers' =
                  [back_tracking_pointers EXCEPT ![frame][s] = r[2]]
    /\ thread_pos' = [thread_pos EXCEPT ![t] = @ + 1]
    /\ UNCHANGED <<crf_vars, config, body_pos, pc, frame, prev_viterbi, path, path_probability, state,
                   division, beats>>

\* acc + log(x), on the exponentials
AddLog(acc, x) == RatMul(acc, x)

\* prev_viterbi_ = current_viterbi / viterbi_sum
Normalised(cur, viterbi_sum) == [s \in DOMAIN cur |-> RatDiv(cur[s], viterbi_sum)]

(***************************************************************************)
(* lines 302-309: after the join of the prange, normalise and go on        *)
(***************************************************************************)
Normalise ==
    /\ pc = "prange"
    /\ \A t \in Threads : thread_pos[t] = ChunkEnd(t)
    /\ LET viterbi_sum == VecSum(current_viterbi, num_states)
       IN  /\ prev_viterbi' = Normalised(current_viterbi, viterbi_sum)
           /\ path_probability' = AddLog(path_probability, viterbi_sum)
    /\ frame' = frame + 1
    /\ thread_pos' = [t \in Threads |-> ChunkStart(t)]
    /\ pc' = IF frame + 1 = num_observations THEN "final" ELSE "prange"
    /\ UNCHANGED <<crf_vars, config, body_pos, current_viterbi, back_tracking_pointers, path, state,
                   division, beats>>

\* what max() of a vector of never written doubles can be
UninitialisedDoubles == {Zero, <<1, 2>>, One, NaN}

\* what a never written uint16 pointer can hold: num_states stands for every
\* value that is no state index
UnwrittenPointerValues == {0, num_states - 1, num_states}

(***************************************************************************)
(* lines 311-314: the final best state and its log probability             *)
(***************************************************************************)
Terminate ==
    /\ pc = "final"
    /\ IF \E s \in States : current_viterbi[s] = Uninitialised
       THEN \E g \in UninitialisedDoubles, s \in States :
               /\ state' = s
               /\ path_probability' = AddLog(path_probability, g)
       ELSE /\ state' = VecArgMax(current_viterbi, num_states)
            /\ path_probability' =
                   AddLog(path_probability, VecMax(current_viterbi, num_states))
    /\ frame' = num_observations - 1
    /\ pc' = IF num_observations = 0 THEN "return" ELSE "backtrack"
    /\ UNCHANGED <<crf_vars, config, body_pos, thread_pos, current_viterbi, prev_viterbi,
                   back_tracking_pointers, path, division, beats>>

(***************************************************************************)
(* lines 318-322: one iteration of the back tracking loop                  *)
(***************************************************************************)
BacktrackStep ==
    /\ pc = "backtrack"
    /\ path' = [path EXCEPT ![frame] = state]
    /\ IF state \notin States
       THEN \* back_tracking_pointers[frame, state] on the numpy array
            /\ pc' = "IndexError"
            /\ UNCHANGED <<state, frame>>
       ELSE /\ IF back_tracking_pointers[frame][state] = Unwritten
               THEN state' \in UnwrittenPointerValues
               ELSE state' = back_tracking_pointers[frame][state]
            /\ frame' = frame - 1
            /\ pc' = IF frame = 0 THEN "return" ELSE "backtrack"
    /\ UNCHANGED <<crf_vars, config, body_pos, thread_pos, current_viterbi, prev_viterbi,
                   back_tracking_pointers, path_probability, division, beats>>

(***************************************************************************)
(* lines 323-326: save and return path and path_probability                *)
(***************************************************************************)
Return ==
    /\ pc = "return"
    /\ pc' = "done"
    /\ UNCHANGED <<crf_vars, config, body_pos, frame, thread_pos, current_viterbi, prev_viterbi,
                   back_tracking_pointers, path, path_probability, state,
                   division, beats>>


(***************************************************************************)
(* The property beats (lines 345-379)                                      *)
(***************************************************************************)
\* beat_states_path: self.path % self.num_beat_states
BeatStatesPath(f) == path[f] % num_beat_states

\* x < (self.num_beat_states / self.observation_lambda) on Python objects:
\* "/" of two ints floors under Python 2 and is the true division under Python 3
InBeatRange(x, div) ==
    IF div = "true" THEN x * observation_lambda < num_beat_states
    ELSE x < (num_beat_states \div observation_lambda)

RECURSIVE SortedSeq(_)
SortedSeq(S) ==
    IF S = {} THEN <<>>
    ELSE LET m == CHOOSE x \in S : \A y \in S : x <= y
         IN  <<m>> \o SortedSeq(S \ {m})

\* idx of lines 357-364: the change points of beat_range, 0 and the length added
ChangePoints(beat_range) ==
    LET n == num_observations
        idx == SortedSeq({f \in 1..(n - 1) : beat_range[f] # beat_range[f - 1]})
        first == IF beat_range[0] THEN <<0>> \o idx ELSE idx
    IN  IF beat_range[n - 1] THEN first \o <<n>> ELSE first

\* np.argmax(self.observations[left:right]) + left
ArgMaxObservation(left, right) ==
    VecArgMax([i \in 0..(right - left - 1) |-> observations[left + i + 1]],
              right - left) + left

CorrectedBeats(div) ==
    LET beat_range == [f \in Frames |-> InBeatRange(BeatStatesPath(f), div)]
        idx == ChangePoints(beat_range)
    IN  [i \in 1..(Len(idx) \div 2) |-> ArgMaxObservation(idx[2 * i - 1], idx[2 * i])]

\* scipy.signal.argrelmin(beat_states_path, mode='wrap')[0]
ArgRelMin ==
    LET n == num_observations
    IN  {f \in Frames : /\ BeatStatesPath(f) < BeatStatesPath((f + n - 1) % n)
                        /\ BeatStatesPath(f) < BeatStatesPath((f + 1) % n)}

UncorrectedBeats(div) ==
    SortedSeq({f \in ArgRelMin : InBeatRange(BeatStatesPath(f), div)})

PythonDivisions == {"floor", "true"}

Beats ==
    /\ pc = "done"
    /\ \E div \in PythonDivisions :
          /\ division' = div
          /\ IF correct /\ num_observations = 0
             THEN \* beat_range[0] of an empty array
                  /\ pc' = "IndexError"
                  /\ beats' = beats
             ELSE /\ pc' = "beats"
                  /\ beats' = IF correct THEN CorrectedBeats(div)
                              ELSE UncorrectedBeats(div)
    /\ UNCHANGED <<crf_vars, config, body_pos, frame, thread_pos, current_viterbi, prev_viterbi,
                   back_tracking_pointers, path, path_probability, state>>

(***************************************************************************)
(* Specification                                                           *)
(***************************************************************************)
Next ==
    \/ CheckStates
    \/ Allocate
    \/ \E t \in Threads : UpdateState(t)
    \/ Normalise
    \/ Terminate
    \/ BacktrackStep
    \/ Return
    \/ Beats

Spec == Init /\ [][Next]_vars


(***************************************************************************)
(* The concrete scenario: activations 0.1, 0.9, 0.1, 0.9, four beat        *)
(* states, the single tempo 1, lambda 4, no tempo change                   *)
(***************************************************************************)
MaxScenarioThreads == 4

ScenarioObservations == <<<<1, 10>>, <<9, 10>>, <<1, 10>>, <<9, 10>>>>

ScenarioInit ==
    \E corr \in BOOLEAN, nt \in 1..MaxScenarioThreads :
        Constructed(ScenarioObservations, 4, <<1>>, Zero, 4, FALSE, corr, nt)

SpecScenario == ScenarioInit /\ [][Next]_vars

(***************************************************************************)
(* The state count check on its own, for state counts around 2^16 and 2^32 *)
(***************************************************************************)
LargeBeatStateCounts ==
    {1, 2, 16384, 21845, 21846, 32767, 32768, 32769, 65535, 65536, 65537,
     1073741823, 1073741824, 1073741825}

MaxTempoStates == 4

ConfigInit ==
    \E nbs \in LargeBeatStateCounts, n \in 1..MaxTempoStates, norm \in BOOLEAN,
       obs \in {<<>>, <<<<1, 2>>>>} :
        Constructed(obs, nbs, [i \in 1..n |-> i], Zero, 2, norm, TRUE, 1)

NextConfig == CheckStates

SpecConfig == ConfigInit /\ [][NextConfig]_vars


(***************************************************************************)
(* crf_viterbi (lines 23-110): the windowed decoder                        *)
(***************************************************************************)
MaxCrfStates == 3

MaxTransitions == 2

MaxTau == 2

num_st == Len(activations)

num_tr == Len(transition)

\* cdef int num_x = num_st / tau
num_x == num_st \div tau

CrfStates == 0..(num_st - 1)

dbn_vars == <<config, frame, thread_pos, body_pos, current_viterbi, prev_viterbi,
              back_tracking_pointers, path_probability, state, division, beats>>

\* the dynamic Bayesian network is not in use
DbnIdle ==
    /\ observations = <<>>
    /\ num_beat_states = 1
    /\ tempo_states = <<1>>
    /\ tempo_change_probability = Zero
    /\ observation_lambda = 2
    /\ norm_observations = FALSE
    /\ correct = FALSE
    /\ num_threads = 1
    /\ frame = 0
    /\ thread_pos = <<>>
    /\ body_pos = [t \in 0..0 |-> "reset"]
    /\ current_viterbi = <<>>
    /\ prev_viterbi = <<>>
    /\ back_tracking_pointers = <<>>
    /\ path_probability = One
    /\ state = 0
    /\ division = "none"
    /\ beats = <<>>

PiChoices(n) ==
    {[j \in 1..n |-> One], [j \in 1..n |-> IF j = 1 THEN One ELSE Zero]}

TransitionChoices == UNION {[1..m -> {<<1, 2>>, One}] : m \in 1..MaxTransitions}

NormFactorChoices(n) ==
    {[j \in 1..n |-> One], [j \in 1..n |-> IF j % 2 = 1 THEN One ELSE <<1, 2>>]}

CrfInit ==
    \E n \in 1..MaxCrfStates :
      \E act \in [1..n -> ObsLevels], p \in PiChoices(n), tr \in TransitionChoices,
         nf \in NormFactorChoices(n), t \in 1..MaxTau :
        /\ DbnIdle
        /\ pc = "crf_called"
        /\ path = <<>>
        /\ activations = act
        /\ pi = p
        /\ transition = tr
        /\ norm_factor = nf
        /\ tau = t
        /\ v_c = <<>>
        /\ v_p = <<>>
        /\ bps = <<>>
        /\ sum_k = Uninitialised
        /\ log_sum = One
        /\ path_prob = Uninitialised
        /\ next_state = Unwritten
        /\ loop_k = 0
        /\ loop_i = 0

\* lines 38-65: the arrays, the first beat from the prior and its normalisation;
\* sum_k is read (sum_k += v_p[i]) before it was given a value
CrfEnter ==
    /\ pc = "crf_called"
    /\ IF num_x = 0
       THEN \* np.empty((num_x - 1, num_st)): negative dimension
            /\ pc' = "crf_ValueError"
            /\ UNCHANGED <<v_c, v_p, bps, path, sum_k, loop_k>>
       ELSE \E g \in UninitialisedDoubles :
              LET first == [s \in CrfStates |-> RatMul(pi[s + 1], activations[s + 1])]
                  total == RatAdd(g, VecSum(first, num_st))
              IN  /\ v_p' = [s \in CrfStates |-> RatDiv(first[s], total)]
                  /\ v_c' = [s \in CrfStates |-> Uninitialised]
                  /\ bps' = [x \in 0..(num_x - 2) |-> [s \in CrfStates |-> Unwritten]]
                  /\ path' = [x \in 0..(num_x - 1) |-> Unwritten]
                  /\ sum_k' = Zero
                  /\ loop_k' = 0
                  /\ pc' = IF num_x - 1 > 0 THEN "crf_loop" ELSE "crf_final"
    /\ UNCHANGED <<dbn_vars, crf_inputs, log_sum, path_prob, next_state, loop_i>>

\* lines 79-80: new_prob for the transition from state s - j into state s
CrfNewProb(prev, s, j) ==
    RatMul(RatMul(RatMul(prev[s - j], transition[j + 1]), activations[s + 1]),
           norm_factor[s - j + 1])

\* the transitions into state s with the loop left as soon as s - j reaches 0:
\* the offsets j < min(s, num_tr) only
RECURSIVE CrfTryTransitionsBelow(_, _, _, _)
CrfTryTransitionsBelow(prev, s, j, acc) ==
    IF j >= num_tr \/ s - j <= 0 THEN acc
    ELSE LET new_prob == CrfNewProb(prev, s, j)
         IN  CrfTryTransitionsBelow(prev, s, j + 1,
                                    IF RatGT(new_prob, acc[1]) THEN <<new_prob, s - j>> ELSE acc)

\* lines 75-84: the transitions j = 0, 1, ... into state s, tried in order on
\* <<v_c[s], bps[k, s]>> until j reaches num_tr or s - j goes below 0
RECURSIVE CrfTryTransitions(_, _, _, _)
CrfTryTransitions(prev, s, j, acc) ==
    IF j >= num_tr \/ s - j < 0 THEN acc
    ELSE LET new_prob == CrfNewProb(prev, s, j)
         IN  CrfTryTransitions(prev, s, j + 1,
                               IF RatGT(new_prob, acc[1]) THEN <<new_prob, s - j>> ELSE acc)

\* lines 68-94: one beat: best transitions, normalisation, log sum, swap
CrfBeat ==
    /\ pc = "crf_loop"
    /\ LET best == [s \in CrfStates |->
                       CrfTryTransitions(v_p, s, 0, <<Zero, bps[loop_k][s]>>)]
           cur == [s \in CrfStates |-> best[s][1]]
           total == VecSum(cur, num_st)
       IN  /\ bps' = [bps EXCEPT ![loop_k] = [s \in CrfStates |-> best[s][2]]]
           /\ sum_k' = total
           /\ log_sum' = AddLog(log_sum, total)
           /\ v_p' = Normalised(cur, total)
           /\ v_c' = v_p
    /\ loop_k' = loop_k + 1
    /\ pc' = IF loop_k + 1 = num_x - 1 THEN "crf_final" ELSE "crf_loop"
    /\ UNCHANGED <<dbn_vars, crf_inputs, path, path_prob, next_state, loop_i>>

\* what a never written int or long can hold: num_st stands for every value
\* that is no state
CrfUnwrittenValues == {0, num_st - 1, num_st}

\* lines 96-102: the final best state; next_state keeps whatever it held if no
\* v_p[i] is above 0
CrfFinal ==
    /\ pc = "crf_final"
    /\ path_prob' = (IF RatGT(VecMax(v_p, num_st), Zero) THEN VecMax(v_p, num_st) ELSE Zero)
    /\ IF RatGT(VecMax(v_p, num_st), Zero)
       THEN next_state' = VecArgMax(v_p, num_st)
       ELSE next_state' \in CrfUnwrittenValues
    /\ path' = [path EXCEPT ![num_x - 1] = next_state']
    /\ loop_i' = num_x - 2
    /\ pc' = IF num_x - 2 >= 0 THEN "crf_backtrack" ELSE "crf_return"
    /\ UNCHANGED <<dbn_vars, crf_inputs, v_c, v_p, bps, sum_k, log_sum, loop_k>>

\* line 106: what bps[i, next_state] reads; bps is a memoryview read without
\* bounds check
CrfPointerRead ==
    IF next_state \in CrfStates
    THEN (IF bps[loop_i][next_state] = Unwritten THEN CrfUnwrittenValues
          ELSE {bps[loop_i][next_state]})
    ELSE CrfUnwrittenValues

\* lines 105-107: one step of the back tracking; a read outside the table
\* yields any value or ends the process
CrfBacktrackStep ==
    /\ pc = "crf_backtrack"
    /\ \/ /\ next_state' \in CrfPointerRead
          /\ path' = [path EXCEPT ![loop_i] = next_state']
          /\ loop_i' = loop_i - 1
          /\ pc' = IF loop_i = 0 THEN "crf_return" ELSE "crf_backtrack"
       \/ /\ next_state \notin CrfStates
          /\ pc' = "crf_crash"
          /\ UNCHANGED <<next_state, path, loop_i>>
    /\ UNCHANGED <<dbn_vars, crf_inputs, v_c, v_p, bps, sum_k, log_sum, path_prob, loop_k>>

\* line 110: log(path_prob) + log_sum, on the exponentials
CrfPathProbability == AddLog(log_sum, path_prob)

\* line 110: return
CrfReturn ==
    /\ pc = "crf_return"
    /\ pc' = "crf_done"
    /\ UNCHANGED <<dbn_vars, crf_vars, path>>

CrfNext ==
    \/ CrfEnter
    \/ CrfBeat
    \/ CrfFinal
    \/ CrfBacktrackStep
    \/ CrfReturn

SpecCrf == CrfInit /\ [][CrfNext]_vars

(***************************************************************************)
(* Properties                                                              *)
(***************************************************************************)
\* viterbi() has returned path and path_probability
Returned == pc \in {"done", "beats"}

\* C1: for every activation sequence of length L >= 1 and every accepted
\* configuration viterbi returns (no exception leaves the back tracking) a path
\* of exactly L entries, each a state index in [0, num_states).
C1_PathLengthAndRange ==
    num_observations >= 1 =>
        /\ pc # "IndexError"
        /\ Returned => /\ DOMAIN path = Frames
                       /\ \A f \in Frames : path[f] \in States

(***************************************************************************)
(* The decoder run by one worker, state after state, as a function of the  *)
(* configuration; a never written pointer reads as 0.                      *)
(***************************************************************************)
RECURSIVE SeqFrameUpdate(_, _, _, _)
SeqFrameUpdate(prev, f, n, acc) ==
    IF n = num_states THEN acc
    ELSE LET r == StateUpdate(prev, f, n, Unwritten)
         IN  SeqFrameUpdate(prev, f, n + 1,
                            [cur |-> [acc.cur EXCEPT ![n] = r[1]],
                             ptr |-> [acc.ptr EXCEPT ![n] = r[2]]])

RECURSIVE SeqTrellis(_)
SeqTrellis(k) ==
    IF k < 0
    THEN [cur |-> [s \in States |-> Uninitialised], prev |-> [s \in States |-> One],
          ptr |-> <<>>, prob |-> One]
    ELSE LET before == SeqTrellis(k - 1)
             r == SeqFrameUpdate(before.prev, k, 0,
                                 [cur |-> before.cur, ptr |-> [s \in States |-> Unwritten]])
             viterbi_sum == VecSum(r.cur, num_states)
         IN  [cur |-> r.cur, prev |-> Normalised(r.cur, viterbi_sum),
              ptr |-> [f \in 0..k |-> IF f = k THEN r.ptr ELSE before.ptr[f]],
              prob |-> AddLog(before.prob, viterbi_sum)]

RECURSIVE SeqBacktrack(_, _, _, _)
SeqBacktrack(ptr, f, st, acc) ==
    IF f < 0 THEN acc
    ELSE SeqBacktrack(ptr, f - 1, IF ptr[f][st] = Unwritten THEN 0 ELSE ptr[f][st],
                      [acc EXCEPT ![f] = st])

SeqResult ==
    LET t == SeqTrellis(num_observations - 1)
    IN  [path |-> SeqBacktrack(t.ptr, num_observations - 1,
                               VecArgMax(t.cur, num_states),
                               [f \in Frames |-> Unwritten]),
         prob |-> AddLog(t.prob, VecMax(t.cur, num_states))]

\* C2: for identical observations and configuration viterbi returns the same
\* path and the same path probability, whatever num_threads is and however the
\* per-state updates of a frame interleave: the result returned is the one
\* function of observations and configuration that the sequential run computes.
C2_Deterministic ==
    num_observations >= 1 =>
        /\ pc # "IndexError"
        /\ Returned => /\ path = SeqResult.path
                       /\ path_probability = SeqResult.prob

IsScenario ==
    /\ observations = ScenarioObservations
    /\ num_beat_states = 4
    /\ tempo_states = <<1>>
    /\ observation_lambda = 4
    /\ tempo_change_probability = Zero
    /\ ~norm_observations

\* the beat-phase path advances by one phase per frame, cyclically
CyclicProgression ==
    \A f \in 1..(num_observations - 1) :
        BeatStatesPath(f) = (BeatStatesPath(f - 1) + 1) % num_beat_states

C4_TempoConstant ==
    (tempo_change_probability = Zero /\ num_tempo_states > 1 /\ num_observations >= 1) =>
        /\ pc # "IndexError"
        /\ Returned =>
               \A f \in Frames, g \in Frames :
                   path[f] \div num_beat_states = path[g] \div num_beat_states

\* C5: in the L1-normalised decoders, after the normalisation of every frame the
\* vector carried into the next frame as the previous-frame vector (prev_viterbi
\* in viterbi, v_p in crf_viterbi) sums to 1 over all states.
C5_NormalisedSumsToOne ==
    /\ (pc = "prange" /\ frame >= 1) => VecSum(prev_viterbi, num_states) = One
    /\ pc = "crf_loop" => VecSum(v_p, num_st) = One

(***************************************************************************)
(* Unnormalised score of the returned path under the uniform prior of 1:   *)
(* product over the frames of transition weight times emission.            *)
(***************************************************************************)
\* weight of the transition from state p into state s; 0 if p is no candidate
TransitionWeight(p, s) ==
    LET cands == Candidates(s)
        hits == {i \in DOMAIN cands : cands[i][1] = p}
    IN  IF hits = {} THEN Zero
        ELSE cands[CHOOSE i \in hits : \A j \in hits : i <= j][2]

RECURSIVE PathScore(_)
PathScore(f) ==
    IF f < 0 THEN One
    ELSE LET from == IF f = 0 THEN back_tracking_pointers[0][path[0]] ELSE path[f - 1]
         IN  RatMul(PathScore(f - 1),
                    RatMul(TransitionWeight(from, path[f]), Obs(f, path[f])))

\* every frame had a positive sum
NonDegenerate == \A s \in States : IsFinite(prev_viterbi[s])

\* C6: the path probability returned (sum of the per-frame log sums plus the log
\* of the final maximum) is the log of the unnormalised score of the returned
\* path.
C6_PathProbabilityIsPathScore ==
    (Returned /\ num_observations >= 1 /\ NonDegenerate) =>
        path_probability = PathScore(num_observations - 1)

\* C7: when every score of some frame is zero viterbi ends in an error; it never
\* divides by the zero sum (which makes prev_viterbi NaN) and never returns a
\* path or path probability from such a run.
C7_ZeroSumFailsFast ==
    /\ (pc \in {"prange", "final", "backtrack", "return"} /\ frame >= 1 /\ num_observations >= 1)
           => \A s \in States : ~IsNaN(prev_viterbi[s])
    /\ (Returned /\ num_observations >= 1) => \A s \in States : ~IsNaN(prev_viterbi[s])

\* C8: for an empty observation sequence viterbi returns an empty path and a
\* path probability that is not derived from a never written score vector.
C8_EmptySequence ==
    (Returned /\ num_observations = 0) =>
        /\ path = <<>>
        /\ \A s \in States : current_viterbi[s] # Uninitialised

(***************************************************************************)
(* num_beat_states * len(tempo_states) as an integer, in 16 bit limbs      *)
(***************************************************************************)
ProductHi ==
    (num_beat_states \div Limb) * num_tempo_states +
    ((num_beat_states % Limb) * num_tempo_states) \div Limb

ProductLo == ((num_beat_states % Limb) * num_tempo_states) % Limb

\* more than 65536 states: some state index does not fit 16 bits
ExceedsIndexCapacity == ProductHi > 1 \/ (ProductHi = 1 /\ ProductLo > 0)

\* C9: viterbi fails with a configuration error exactly when the number of
\* states exceeds the capacity of the 16 bit state index (more than 65536
\* states); every configuration whose state indices all fit is accepted.
C9_RejectsExactlyOverCapacity ==
    /\ pc = "AssertionError" => ExceedsIndexCapacity
    /\ pc = "checked" => ~ExceedsIndexCapacity

BeatsEvaluated == division # "none"

BeatRegionFrame(f) == InBeatRange(BeatStatesPath(f), division)

\* first frames of the maximal contiguous runs of beat region frames
RunStarts ==
    {f \in Frames : BeatRegionFrame(f) /\ (f = 0 \/ ~BeatRegionFrame(f - 1))}

\* the frame after the run that starts at frame l
RunEnd(l) ==
    CHOOSE r \in (l + 1)..num_observations :
        /\ \A f \in l..(r - 1) : BeatRegionFrame(f)
        /\ r = num_observations \/ ~BeatRegionFrame(r)

\* frame b is the first frame with the maximum raw activation in [l, r)
FirstMaxOfRun(b, l, r) ==
    /\ b \in l..(r - 1)
    /\ \A f \in l..(r - 1) : ~RatGT(observations[f + 1], observations[b + 1])
    /\ \A f \in l..(b - 1) : RatGT(observations[b + 1], observations[f + 1])

\* C11: in correct mode beats returns (for every decoded path, the empty one
\* included) exactly one frame per maximal contiguous run of beat region frames,
\* runs touching frame 0 or the last frame included; the returned frame lies in
\* its run [left, right) and is the first frame with the maximum raw activation
\* of the run; the result is strictly increasing and within [0, numFrames).
C11_OneBeatPerRun ==
    (correct /\ BeatsEvaluated) =>
        /\ pc = "beats"
        /\ Len(beats) = Cardinality(RunStarts)
        /\ \A l \in RunStarts :
               \E i \in DOMAIN beats : FirstMaxOfRun(beats[i], l, RunEnd(l))
        /\ \A i \in DOMAIN beats : beats[i] \in Frames
        /\ \A i \in DOMAIN beats, j \in DOMAIN beats : i < j => beats[i] < beats[j]

(***************************************************************************)
(* Candidate predecessors of the composite model                           *)
(***************************************************************************)
\* beat_state + num_beat_states - t as an integer, before the unsigned
\* arithmetic of the code truncates it
BiasedDifference(s, t) == BeatStateOf(s) + num_beat_states - t

\* the tempo the code subtracts for each candidate of s, in candidate order:
\* tempo, tempo - 1, tempo + 1
SubtractedTempos(s) ==
    <<TempoOf(s)>> \o
    (IF TempoStateOf(s) > 0 THEN <<TempoOf(s) - 1>> ELSE <<>>) \o
    (IF TempoStateOf(s) < num_tempo_states - 1 THEN <<TempoOf(s) + 1>> ELSE <<>>)

\* the tempo indices of the candidates of s, in candidate order
CandidateTempoStates(s) ==
    <<TempoStateOf(s)>> \o
    (IF TempoStateOf(s) > 0 THEN <<TempoStateOf(s) - 1>> ELSE <<>>) \o
    (IF TempoStateOf(s) < num_tempo_states - 1 THEN <<TempoStateOf(s) + 1>> ELSE <<>>)

\* the predecessor of s at tempo index ti under the stated contract: beat phase
\* (beatPhase - tempoStates[ti] + numBeatStates) mod numBeatStates
ContractPredecessor(s, ti) ==
    ((BeatStateOf(s) - tempo_states[ti + 1] + num_beat_states) % num_beat_states) +
    ti * num_beat_states

\* C12: while viterbi decodes, every candidate predecessor of every state is a
\* valid state index at the tempo index of the state, the one below (only if
\* the tempo index is above 0) or the one above (only if it is below the last),
\* its beat phase is (beatPhase - t + num_beat_states) mod num_beat_states with
\* t the tempo state at that tempo index, and the biased subtraction the code
\* computes is never negative; for every ordered set of positive tempo states.
C12_CandidatesFollowTempoStates ==
    pc = "prange" =>
        \A s \in States :
            /\ Len(Candidates(s)) = Len(CandidateTempoStates(s))
            /\ \A i \in DOMAIN Candidates(s) :
                   /\ Candidates(s)[i][1] \in States
                   /\ CandidateTempoStates(s)[i] \in 0..(num_tempo_states - 1)
                   /\ Candidates(s)[i][1] =
                          ContractPredecessor(s, CandidateTempoStates(s)[i])
                   /\ BiasedDifference(s, SubtractedTempos(s)[i]) >= 0

(***************************************************************************)
(* Candidate window of the windowed decoder                                *)
(***************************************************************************)
Min(a, b) == IF a < b THEN a ELSE b

\* the offsets j in [0, min(i + 1, numTransitionWeights))
WindowUpTo(i) == 0..(Min(i + 1, num_tr) - 1)

\* the offsets j in [0, min(i, numTransitionWeights))
WindowBelow(i) == 0..(Min(i, num_tr) - 1)

\* score of the candidate i - j of state i
WindowScore(i, j) ==
    RatMul(RatMul(RatMul(v_p[i - j], transition[j + 1]), activations[i + 1]),
           norm_factor[i - j + 1])

\* the best score of state i over the offsets W: the score (or 0) that no
\* candidate score exceeds
WindowBest(i, W) ==
    LET scores == {WindowScore(i, j) : j \in W} \cup {Zero}
    IN  CHOOSE m \in scores : ~IsNaN(m) /\ \A x \in scores : ~RatGT(x, m)

\* one beat of crf_viterbi takes, for every state i, its candidates from the
\* offsets W(i): the vector carried on is the L1 normalisation of the best
\* candidate scores, and the pointer written for i is a candidate i - j, j in
\* W(i), with that best score (none is written while the best score is 0)
BeatTakesCandidatesFrom(W(_)) ==
    pc = "crf_loop" =>
        LET cur == [i \in CrfStates |-> WindowBest(i, W(i))]
        IN  /\ sum_k' = VecSum(cur, num_st)
            /\ v_p' = Normalised(cur, VecSum(cur, num_st))
            /\ \A i \in CrfStates :
                   IF RatGT(cur[i], Zero)
                   THEN \E j \in W(i) : /\ i - j >= 0
                                        /\ bps'[loop_k][i] = i - j
                                        /\ WindowScore(i, j) = cur[i]
                   ELSE bps'[loop_k][i] = bps[loop_k][i]

\* C13 as stated: the candidate predecessors considered for state i are exactly
\* the states i - j for j in [0, min(i, numTransitionWeights)), each scored
\* v_prev[i-j] * transition[j] * activations[i] * norm_factor[i-j].
C13_WindowBelowState == [][BeatTakesCandidatesFrom(WindowBelow)]_vars

\* C13 amended: the candidate predecessors considered for state i are exactly
\* the states i - j for j in [0, min(i + 1, numTransitionWeights)), that is every
\* j below the number of transition weights with i - j >= 0 (state i itself and,
\* when the window reaches it, state 0 included), each scored v_prev[i-j] *
\* transition[j] * activations[i] * norm_factor[i-j]; no negative index is read.
C13_WindowUpToState == [][BeatTakesCandidatesFrom(WindowUpTo)]_vars

\* a beat has been decoded in which state 0 took itself (j = 0 = i) and state 1
\* took state 0 (j = 1 = i) as predecessor
C13_Witness ==
    /\ pc \in {"crf_loop", "crf_final", "crf_backtrack", "crf_return", "crf_done"}
    /\ loop_k >= 1
    /\ num_st >= 2
    /\ num_tr >= 2
    /\ bps[0][0] = 0
    /\ bps[0][1] = 0

(***************************************************************************)
(* Decoding with equal transition weights: with tempo_change_probability   *)
(* 2/3 the three weights are all 1/3, with 1/2 the two tempo changes weigh *)
(* the same, so that candidates of one state tie                           *)
(***************************************************************************)
MaxTieFrames == 2

MaxTieBeatStates == 3

TieTempoStateSets == {ts \in TempoStateSets : Len(ts) = 2} \cup {<<1, 2, 3>>}

TieChangeProbabilities == {<<1, 2>>, <<2, 3>>}

\* activations above 0: every frame has candidates with a positive score
TieObsLevels == ObsLevels \ {Zero}

TieInit ==
    \E n \in 1..MaxTieFrames :
      \E obs \in [1..n -> TieObsLevels], nbs \in 2..MaxTieBeatStates,
         ts \in TieTempoStateSets, tcp \in TieChangeProbabilities,
         nt \in 1..MaxThreads :
        Constructed(obs, nbs, ts, tcp, 2, FALSE, TRUE, nt)

SpecTie == TieInit /\ [][Next]_vars

\* the states of the current frame whose update has been run
UpdatedStates ==
    {s \in States : \E t \in Threads : s >= ChunkStart(t) /\ s < thread_pos[t]}

\* score of candidate i of state s in the current frame
CandidateScore(s, i) == TransitionProb(prev_viterbi, Candidates(s)[i], Obs(frame, s))

\* candidate i has the maximal score of state s, and that score is positive
IsMaximal(s, i) ==
    /\ RatGT(CandidateScore(s, i), Zero)
    /\ \A j \in DOMAIN Candidates(s) : ~RatGT(CandidateScore(s, j), CandidateScore(s, i))

\* C14: in viterbi, whenever the update of a state is run and its candidates
\* reach a maximal positive score, the score recorded is that maximum and the
\* back-tracking pointer recorded is the predecessor of the earliest candidate,
\* in the order same tempo, slower tempo, faster tempo, that has it: a later
\* candidate replaces the recorded one only when its score is strictly greater.
C14_EarliestCandidateWins ==
    [][\A t \in DOMAIN thread_pos :
           (pc = "prange" /\ pc' = "prange" /\ frame' = frame /\
            thread_pos'[t] = thread_pos[t] + 1) =>
               LET s == thread_pos[t]
               IN  \A i \in DOMAIN Candidates(s) :
                       (IsMaximal(s, i) /\ \A j \in 1..(i - 1) : ~IsMaximal(s, j)) =>
                           /\ current_viterbi'[s] = CandidateScore(s, i)
                           /\ back_tracking_pointers'[frame][s] = Candidates(s)[i][1]]_vars

\* a state has been updated whose first maximal candidate ties with a later
\* candidate that comes from another predecessor state
C14_Witness ==
    /\ pc = "prange"
    /\ frame >= 1
    /\ \E s \in UpdatedStates :
         \E i \in DOMAIN Candidates(s), j \in DOMAIN Candidates(s) :
            /\ i < j
            /\ IsMaximal(s, i)
            /\ IsMaximal(s, j)
            /\ \A h \in 1..(i - 1) : ~IsMaximal(s, h)
            /\ Candidates(s)[i][1] # Candidates(s)[j][1]
            /\ back_tracking_pointers[frame][s] = Candidates(s)[i][1]

(***************************************************************************)
(* The body of the prange loop statement by statement: each worker runs    *)
(* the reset (line 247) and the three candidates (lines 262-273, 275-287,  *)
(* 289-301) of its current state as separate steps, reading and writing    *)
(* the shared arrays at each of them; the locals of the body (beat_state,  *)
(* tempo, obs, prev_state, transition_prob) are private to the worker      *)
(***************************************************************************)
MaxStepFrames == 2

MaxStepBeatStates == 2

StepTempoStateSets == {<<1, 2>>, <<1, 2, 3>>}

\* the worker t is inside its chunk at position pos of the body
AtBody(t, pos) ==
    /\ pc = "prange"
    /\ thread_pos[t] < ChunkEnd(t)
    /\ body_pos[t] = pos

\* line 247: current_viterbi_[state] = 0.0
ResetSlot(t) ==
    /\ AtBody(t, "reset")
    /\ current_viterbi' = [current_viterbi EXCEPT ![thread_pos[t]] = Zero]
    /\ body_pos' = [body_pos EXCEPT ![t] = "same"]
    /\ UNCHANGED <<crf_vars, config, pc, frame, thread_pos, prev_viterbi,
                   back_tracking_pointers, path, path_probability, state,
                   division, beats>>

\* "if transition_prob > current_viterbi_[state]: ..." for one candidate of the
\* state of worker t, on the arrays as they are now
TryCandidate(t, cand) ==
    LET s == thread_pos[t]
        transition_prob == TransitionProb(prev_viterbi, cand, Obs(frame, s))
    IN  IF Replaces(transition_prob, current_viterbi[s])
        THEN /\ current_viterbi' = [current_viterbi EXCEPT ![s] = transition_prob]
             /\ back_tracking_pointers' =
                    [back_tracking_pointers EXCEPT ![frame][s] = cand[1]]
        ELSE UNCHANGED <<current_viterbi, back_tracking_pointers>>

\* lines 262-273: transition from the same tempo
TrySame(t) ==
    /\ AtBody(t, "same")
    /\ TryCandidate(t, <<PrevStateSame(thread_pos[t]), same_tempo_prob>>)
    /\ body_pos' = [body_pos EXCEPT ![t] = "slower"]
    /\ UNCHANGED <<crf_vars, config, pc, frame, thread_pos, prev_viterbi, path,
                   path_probability, state, division, beats>>

\* lines 275-287: transition from the slower tempo
TrySlower(t) ==
    /\ AtBody(t, "slower")
    /\ IF TempoStateOf(thread_pos[t]) > 0
       THEN TryCandidate(t, <<PrevStateSlower(thread_pos[t]), change_tempo_prob>>)
       ELSE UNCHANGED <<current_viterbi, back_tracking_pointers>>
    /\ body_pos' = [body_pos EXCEPT ![t] = "faster"]
    /\ UNCHANGED <<crf_vars, config, pc, frame, thread_pos, prev_viterbi, path,
                   path_probability, state, division, beats>>

\* lines 289-301: transition from the faster tempo, then on to the next state
TryFaster(t) ==
    /\ AtBody(t, "faster")
    /\ IF TempoStateOf(thread_pos[t]) < num_tempo_states - 1
       THEN TryCandidate(t, <<PrevStateFaster(thread_pos[t]), change_tempo_prob>>)
       ELSE UNCHANGED <<current_viterbi, back_tracking_pointers>>
    /\ body_pos' = [body_pos EXCEPT ![t] = "reset"]
    /\ thread_pos' = [thread_pos EXCEPT ![t] = @ + 1]
    /\ UNCHANGED <<crf_vars, config, pc, frame, prev_viterbi, path,
                   path_probability, state, division, beats>>

StepsInit ==
    \E n \in 1..MaxStepFrames :
      \E obs \in [1..n -> TieObsLevels], nbs \in 2..MaxStepBeatStates,
         ts \in StepTempoStateSets, tcp \in TieChangeProbabilities,
         nt \in 1..MaxThreads :
        Constructed(obs, nbs, ts, tcp, 2, FALSE, TRUE, nt)

NextSteps ==
    \/ CheckStates
    \/ Allocate
    \/ \E t \in Threads : ResetSlot(t)
    \/ \E t \in Threads : TrySame(t)
    \/ \E t \in Threads : TrySlower(t)
    \/ \E t \in Threads : TryFaster(t)
    \/ Normalise
    \/ Terminate
    \/ BacktrackStep
    \/ Return
    \/ Beats

SpecSteps == StepsInit /\ [][NextSteps]_vars

\* the workers whose chunk holds state s
WorkersOf(s) == {t \in Threads : ChunkStart(t) <= s /\ s < ChunkEnd(t)}

\* every state belongs to one worker, and every state whose update has been run
\* in the current frame holds the score and the pointer that its update computes
\* from the previous-frame vector alone
SlotsHoldOwnUpdate ==
    pc = "prange" =>
        /\ \A s \in States : Cardinality(WorkersOf(s)) = 1
        /\ \A s \in UpdatedStates :
               <<current_viterbi[s], back_tracking_pointers[frame][s]>> =
                   StateUpdate(prev_viterbi, frame, s, Unwritten)

\* a step inside a frame leaves the previous-frame vector alone and writes at
\* most the score slot and the pointer slot, in the row of this frame, of the
\* state that the stepping worker is at
OwnSlotsOnly ==
    (pc = "prange" /\ pc' = "prange" /\ frame' = frame) =>
        /\ prev_viterbi' = prev_viterbi
        /\ \E t \in Threads :
              /\ thread_pos[t] < ChunkEnd(t)
              /\ \A u \in Threads \ {t} :
                     thread_pos'[u] = thread_pos[u] /\ body_pos'[u] = body_pos[u]
              /\ \A s \in States \ {thread_pos[t]} :
                     /\ current_viterbi'[s] = current_viterbi[s]
                     /\ back_tracking_pointers'[frame][s] =
                            back_tracking_pointers[frame][s]
              /\ \A f \in Frames \ {frame} :
                     back_tracking_pointers'[f] = back_tracking_pointers[f]

\* the frame only moves on when every worker has finished its chunk, and the
\* next frame starts from the normalised vector of this one
FrameBarrier ==
    (pc = "prange" /\ frame' # frame) =>
        /\ \A t \in Threads : thread_pos[t] = ChunkEnd(t) /\ body_pos[t] = "reset"
        /\ UpdatedStates = States
        /\ frame' = frame + 1
        /\ prev_viterbi' =
               Normalised(current_viterbi, VecSum(current_viterbi, num_states))
        /\ current_viterbi' = current_viterbi
        /\ back_tracking_pointers' = back_tracking_pointers

\* C15: within a frame of viterbi the update of a state reads only the
\* previous-frame vector and writes only its own score slot and its own pointer
\* slot of that frame, and no update of the next frame starts before every
\* state of the frame is computed and the frame is normalised: under every
\* interleaving of the statements of the workers each state ends up with the
\* value its own update computes, never one observed from or overwritten by the
\* update of another state.
C15_StateUpdatesIndependent ==
    []SlotsHoldOwnUpdate /\ [][OwnSlotsOnly /\ FrameBarrier]_vars

\* two workers are inside the updates of their states at once, one of which has
\* already written its pointer, in a frame after the first
C15_Witness ==
    /\ pc = "prange"
    /\ frame >= 1
    /\ \E t \in Threads, u \in Threads :
          /\ t # u
          /\ thread_pos[t] < ChunkEnd(t)
          /\ thread_pos[u] < ChunkEnd(u)
          /\ body_pos[t] = "faster"
          /\ body_pos[u] = "slower"
          /\ back_tracking_pointers[frame][thread_pos[t]] # Unwritten
          /\ back_tracking_pointers[frame][thread_pos[u]] # Unwritten

(***************************************************************************)
(* The returned path as a chain of recorded transitions                    *)
(***************************************************************************)
\* the candidate predecessors of state s
PredecessorsOf(s) == {Candidates(s)[i][1] : i \in DOMAIN Candidates(s)}

\* C16: the path returned by viterbi ends in the first state with the maximum
\* final-frame score, and for every frame k in [0, L-2] path[k] is the
\* back-tracking pointer recorded at frame k+1 for path[k+1], hence one of the
\* at most three candidate predecessors of path[k+1]; the pointers of frame 0
\* determine no path entry.
C16_PathIsChain ==
    (Returned /\ num_observations >= 1) =>
        /\ path[num_observations - 1] = VecArgMax(current_viterbi, num_states)
        /\ \A k \in 0..(num_observations - 2) :
               /\ path[k + 1] \in States
               /\ path[k] = back_tracking_pointers[k + 1][path[k + 1]]
               /\ path[k] \in PredecessorsOf(path[k + 1])

(***************************************************************************)
(* The path returned by crf_viterbi                                        *)
(***************************************************************************)
\* C17: crf_viterbi returns (the back tracking ends without a fault) a path of
\* exactly floor(num_st / tau) entries, every entry a frame index in
\* [0, num_st), the path is non-decreasing and consecutive entries differ by
\* less than the number of transition weights.
C17_CrfPathShape ==
    /\ pc # "crf_crash"
    /\ pc = "crf_done" =>
           /\ DOMAIN path = 0..((num_st \div tau) - 1)
           /\ \A x \in DOMAIN path : path[x] \in CrfStates
           /\ \A x \in DOMAIN path :
                  (x + 1) \in DOMAIN path =>
                      /\ path[x] <= path[x + 1]
                      /\ path[x + 1] - path[x] < num_tr

=============================================================================
